---- MODULE Spec2Model ----
(***************************************************************************)
(* The kubeless function controller (pkg/controller/controller.go): the    *)
(* informer's event handlers, the rate-limited work queue, Run, the        *)
(* start-up garbage collection, and the worker that reconciles one key at  *)
(* a time through the ensure path or the delete path.                      *)
(*                                                                         *)
(* Strings that are joined and split on "/" are modelled as sequences of   *)
(* "/"-free segments: the name "a/b" is <<"a", "b">>, the key "ns/f" is    *)
(* <<"ns", "f">>.                                                          *)
(***************************************************************************)
EXTENDS Naturals, Sequences, FiniteSets, TLC

\* ------------------------------------------------------------ constants
maxRetries == 5
funcKind == "Function"
funcAPI == "kubeless.io"

\* ------------------------------------------------------------ bounds
\* Watch notifications (add, update, delete) the informer delivers in a run.
MaxEvents == 2
\* Calls of processItem that fail, in a run, with an error other than
\* not-found.
MaxFaults == 1

\* ------------------------------------------------------------ names, keys
NS == "ns"
\* The one Function the watch reports, and a Function that no longer exists.
LiveName == <<"f">>
OrphanName == <<"orphan">>
\* An owner name that holds a "/": no Function can bear it, an owner
\* reference written by hand can.
SlashName == <<"a", "b">>
FuncNames == {LiveName}
OwnerNames == {LiveName, OrphanName, SlashName}

\* cache.MetaNamespaceKeyFunc: namespace + "/" + name ("name" alone without
\* a namespace).
MetaNamespaceKeyFunc(ns, name) ==
  IF ns # "" THEN <<ns>> \o name ELSE name

\* fmt.Sprintf("%s/%s", namespace, ownerName) of the collectors.
SprintfKey(ns, ownerName) == <<ns>> \o ownerName

\* cache.SplitMetaNamespaceKey: strings.Split(key, "/"); one part is a name
\* without namespace, two parts are namespace and name, anything else is an
\* error.
SplitMetaNamespaceKey(key) ==
  CASE Len(key) = 1 -> [ok |-> TRUE, ns |-> "", name |-> <<key[1]>>]
    [] Len(key) = 2 -> [ok |-> TRUE, ns |-> key[1], name |-> <<key[2]>>]
    [] OTHER -> [ok |-> FALSE, ns |-> "", name |-> <<>>]

Keys == {SprintfKey(NS, n) : n \in OwnerNames}
FuncKeys == {MetaNamespaceKeyFunc(NS, n) : n \in FuncNames}
NoKey == <<>>

\* ------------------------------------------------------------ work queue
\* workqueue.RateLimitingInterface as the controller uses it.  A queue is a
\* record: queue (FIFO of keys to deliver), dirty (keys that need
\* processing), processing (keys handed out by Get and not yet Done),
\* shuttingDown, failures (the rate limiter's per-key count) and waiting
\* (keys whose delayed re-add has not fired yet).
NewRateLimitingQueue ==
  [queue |-> <<>>, dirty |-> {}, processing |-> {}, shuttingDown |-> FALSE,
   failures |-> [k \in Keys |-> 0], waiting |-> {}]

InQueue(q, item) == \E i \in 1..Len(q.queue) : q.queue[i] = item

QueueAdd(q, item) ==
  IF q.shuttingDown \/ item \in q.dirty THEN q
  ELSE IF item \in q.processing THEN [q EXCEPT !.dirty = @ \cup {item}]
  ELSE [q EXCEPT !.dirty = @ \cup {item}, !.queue = Append(@, item)]

\* Get blocks until this holds.
QueueGetReady(q) == q.queue # <<>> \/ q.shuttingDown

\* Get's result once it returns: the quit flag, the item and the queue.
QueueGet(q) ==
  IF q.queue = <<>>
  THEN [quit |-> TRUE, item |-> NoKey, q |-> q]
  ELSE [quit |-> FALSE, item |-> Head(q.queue),
        q |-> [q EXCEPT !.queue = Tail(@),
                        !.processing = @ \cup {Head(q.queue)},
                        !.dirty = @ \ {Head(q.queue)}]]

QueueDone(q, item) ==
  IF item \in q.dirty
  THEN [q EXCEPT !.processing = @ \ {item}, !.queue = Append(@, item)]
  ELSE [q EXCEPT !.processing = @ \ {item}]

QueueShutDown(q) == [q EXCEPT !.shuttingDown = TRUE]

QueueNumRequeues(q, item) == q.failures[item]

QueueForget(q, item) == [q EXCEPT !.failures[item] = 0]

\* AddRateLimited: the limiter counts one more failure and the key is added
\* after the (positive) backoff delay, by the queue's timer.
QueueAddRateLimited(q, item) ==
  IF q.shuttingDown
  THEN [q EXCEPT !.failures[item] = @ + 1]
  ELSE [q EXCEPT !.failures[item] = @ + 1, !.waiting = @ \cup {item}]

\* The delay of a waiting key expires.
QueueTimerFires(q, item) ==
  QueueAdd([q EXCEPT !.waiting = @ \ {item}], item)

\* ------------------------------------------------------------ cluster objects
\* The managed kinds: configuration object, network-exposure object,
\* deployment, scheduled job, autoscaler, metrics monitor.
Kinds == {"cm", "svc", "dep", "cron", "hpa", "sm"}

Obj(kind, ns, name, refs, spec) ==
  [kind |-> kind, ns |-> ns, name |-> name, refs |-> refs, spec |-> spec]

\* What a builder derives from the Function for an object of a kind: the
\* trigger type stands for the declaration's content, the deployment
\* carries the deployment shape (with or without the cluster-wide override
\* merged in) and the autoscaler its metrics.
Payload(kind, funcObj) ==
  [type    |-> funcObj.type,
   merged  |-> kind = "dep" /\ funcObj.merged,
   metrics |-> IF kind = "hpa" THEN funcObj.metrics ELSE <<>>]

\* utils.GetOwnerReference: the one back-reference every managed object of a
\* Function carries.
GetOwnerReference(name) ==
  <<[kind |-> funcKind, api |-> funcAPI, name |-> name]>>

\* fmt.Sprintf("trigger-%s", name): the scheduled job's derived name.
TriggerName(name) == <<"trigger-" \o name[1]>>

Has(objs, kind, ns, name) ==
  \E o \in objs : o.kind = kind /\ o.ns = ns /\ o.name = name

Without(objs, kind, ns, name) ==
  {o \in objs : ~(o.kind = kind /\ o.ns = ns /\ o.name = name)}

\* ------------------------------------------------------------ API calls
\* One attempt threads a record through its calls: objs (the cluster), log
\* (the calls made, each with its result) and last (the result of the latest
\* call: "ok", "NotFound" or "Error").  F is the set of calls that fail with
\* an error other than not-found in this attempt.  fn is the Function
\* object the attempt got from the cache, as its writes leave it; the delete
\* path has none.
Begin(objs) == [objs |-> objs, log |-> <<>>, last |-> "ok", fn |-> [name |-> <<>>]]

Logged(s, call, result) ==
  [s EXCEPT !.log = Append(@, <<call, result>>), !.last = result]

ApiGet(s, F, call, kind, ns, name) ==
  IF call \in F THEN Logged(s, call, "Error")
  ELSE IF Has(s.objs, kind, ns, name) THEN Logged(s, call, "ok")
  ELSE Logged(s, call, "NotFound")

ApiDelete(s, F, call, kind, ns, name) ==
  IF call \in F THEN Logged(s, call, "Error")
  ELSE IF Has(s.objs, kind, ns, name)
  THEN [Logged(s, call, "ok") EXCEPT !.objs = Without(@, kind, ns, name)]
  ELSE Logged(s, call, "NotFound")

\* The utils.Ensure* and utils.Create* helpers: create the object, or bring
\* the existing one to the desired payload.
ApiEnsure(s, F, call, kind, ns, name, refs) ==
  IF call \in F THEN Logged(s, call, "Error")
  ELSE [Logged(s, call, "ok") EXCEPT
          !.objs = Without(@, kind, ns, name)
                     \cup {Obj(kind, ns, name, refs, Payload(kind, s.fn))}]

\* A helper that touches no object (the override merge, the owner reference,
\* API discovery).
Fallible(s, F, call) ==
  IF call \in F THEN Logged(s, call, "Error") ELSE Logged(s, call, "ok")

\* What an attempt returns: the cluster, the calls, the error ("nil" for
\* none) and whether it panicked instead of returning.
Ret(s, e) ==
  [objs |-> s.objs, log |-> s.log, err |-> e, panic |-> FALSE, fn |-> s.fn]

Panicked(s) ==
  [objs |-> s.objs, log |-> s.log, err |-> "panic", panic |-> TRUE, fn |-> s.fn]

\* ------------------------------------------------------------ delete path
\* deleteAutoscale leaving the metrics monitor alone.
deleteAutoscaleHpaOnly(s, F, smclient, ns, name) ==
  LET s2 == ApiDelete(s, F, "hpaDelete", "hpa", ns, name)
  IN IF s2.last = "Error" THEN s2 ELSE [s2 EXCEPT !.last = "ok"]

deleteAutoscale(s, F, smclient, ns, name) ==
  LET s1 == IF smclient THEN ApiDelete(s, F, "smDelete", "sm", ns, name) ELSE s
  IN IF smclient /\ s1.last = "Error" THEN s1
     ELSE LET s2 == ApiDelete(s1, F, "hpaDelete", "hpa", ns, name)
          IN IF s2.last = "Error" THEN s2 ELSE [s2 EXCEPT !.last = "ok"]

\* deleteK8sResources taking a not-found answer to the deployment delete for
\* an error.
deleteK8sResourcesStrict(objs, F, smclient, ns, name) ==
  LET g  == ApiGet(Begin(objs), F, "cronGet", "cron", ns, TriggerName(name))
      s1 == IF g.last = "ok"
            THEN ApiDelete(g, F, "cronDelete", "cron", ns, TriggerName(name))
            ELSE g
  IN IF g.last = "ok" /\ s1.last = "Error" THEN Ret(s1, "Error")
     ELSE LET s2 == ApiDelete(s1, F, "depDelete", "dep", ns, name)
     IN IF s2.last # "ok" THEN Ret(s2, "Error")
     ELSE LET s3 == ApiDelete(s2, F, "svcDelete", "svc", ns, name)
     IN IF s3.last = "Error" THEN Ret(s3, "Error")
     ELSE LET s4 == ApiDelete(s3, F, "cmDelete", "cm", ns, name)
     IN IF s4.last = "Error" THEN Ret(s4, "Error")
     ELSE LET s5 == deleteAutoscale(s4, F, smclient, ns, name)
     IN IF s5.last = "Error" THEN Ret(s5, "Error")
     ELSE Ret(s5, "nil")

deleteK8sResources(objs, F, smclient, ns, name) ==
  LET g  == ApiGet(Begin(objs), F, "cronGet", "cron", ns, TriggerName(name))
      s1 == IF g.last = "ok"
            THEN ApiDelete(g, F, "cronDelete", "cron", ns, TriggerName(name))
            ELSE g
  IN IF g.last = "ok" /\ s1.last = "Error" THEN Ret(s1, "Error")
     ELSE LET s2 == ApiDelete(s1, F, "depDelete", "dep", ns, name)
     IN IF s2.last = "Error" THEN Ret(s2, "Error")
     ELSE LET s3 == ApiDelete(s2, F, "svcDelete", "svc", ns, name)
     IN IF s3.last = "Error" THEN Ret(s3, "Error")
     ELSE LET s4 == ApiDelete(s3, F, "cmDelete", "cm", ns, name)
     IN IF s4.last = "Error" THEN Ret(s4, "Error")
     ELSE LET s5 == deleteAutoscale(s4, F, smclient, ns, name)
     IN IF s5.last = "Error" THEN Ret(s5, "Error")
     ELSE Ret(s5, "nil")

\* ------------------------------------------------------------ ensure path
\* A Function as the ensure path reads it: its identity, its trigger type,
\* and its autoscaling specification (the autoscaler's name, the name of
\* the scale target, the kinds of its metrics; <<>> is the empty string).
\* The fields the ensure path writes are as the watch delivers them: no
\* function=<name> label, the deployment shape without the cluster-wide
\* override, no owner reference on the autoscaling specification.
Function(name, type, hpaName, scaleTarget, metrics) ==
  [ns |-> NS, name |-> name, type |-> type, hpaName |-> hpaName,
   scaleTarget |-> scaleTarget, metrics |-> metrics,
   labelled |-> FALSE, merged |-> FALSE, hpaRefs |-> <<>>]

\* The autoscaling branch creating the autoscaler and failing if it exists.
ensureAutoscaleCreateOnly(s, F, smclient, funcObj, or) ==
  LET s0 == [s EXCEPT !.fn.hpaRefs = or] IN
  IF funcObj.metrics = <<>> THEN Panicked(s0)
  ELSE IF funcObj.metrics[1] = "Object" /\ ~smclient THEN Panicked(s0)
  ELSE LET s1 == IF funcObj.metrics[1] = "Object"
                 THEN ApiEnsure(s0, F, "smCreate", "sm", funcObj.ns,
                                funcObj.name, or)
                 ELSE s0
       IN IF funcObj.metrics[1] = "Object" /\ s1.last = "Error"
          THEN Ret(s1, "Error")
          ELSE IF Has(s1.objs, "hpa", funcObj.ns, funcObj.hpaName)
          THEN Ret(Logged(s1, "hpaCreate", "AlreadyExists"), "Error")
          ELSE LET s2 == ApiEnsure(s1, F, "hpaCreate", "hpa", funcObj.ns,
                                   funcObj.hpaName, s1.fn.hpaRefs)
               IN IF s2.last = "Error" THEN Ret(s2, "Error") ELSE Ret(s2, "nil")

\* The branch of ensureK8sResources for a valid autoscaling specification.
\* Metrics[0] of an empty list and *c.smclient of a nil client panic.
\* It first writes the owner reference into the Function's autoscaling
\* specification, which is the object utils.CreateAutoscale is given.
ensureAutoscale(s, F, smclient, funcObj, or) ==
  LET s0 == [s EXCEPT !.fn.hpaRefs = or] IN
  IF funcObj.metrics = <<>> THEN Panicked(s0)
  ELSE IF funcObj.metrics[1] = "Object" /\ ~smclient THEN Panicked(s0)
  ELSE LET s1 == IF funcObj.metrics[1] = "Object"
                 THEN ApiEnsure(s0, F, "smCreate", "sm", funcObj.ns,
                                funcObj.name, or)
                 ELSE s0
       IN IF funcObj.metrics[1] = "Object" /\ s1.last = "Error"
          THEN Ret(s1, "Error")
          ELSE LET s2 == ApiEnsure(s1, F, "hpaCreate", "hpa", funcObj.ns,
                                   funcObj.hpaName, s1.fn.hpaRefs)
               IN IF s2.last = "Error" THEN Ret(s2, "Error") ELSE Ret(s2, "nil")

\* ensureOptional comparing the trigger type with "Schedule".
ensureOptionalSchedule(s, F, smclient, funcObj, or) ==
  LET d  == IF funcObj.type = "Schedule"
            THEN Fallible(s, F, "discovery") ELSE s
      s1 == IF funcObj.type = "Schedule" /\ d.last = "ok"
            THEN ApiEnsure(d, F, "cronEnsure", "cron", funcObj.ns,
                           TriggerName(funcObj.name), or)
            ELSE d
  IN IF funcObj.type = "Schedule" /\ s1.last = "Error" THEN Ret(s1, "Error")
     ELSE IF funcObj.hpaName # <<>> /\ funcObj.scaleTarget # <<>>
     THEN ensureAutoscale(s1, F, smclient, funcObj, or)
     ELSE LET s2 == deleteAutoscale(s1, F, smclient, funcObj.ns, funcObj.name)
          IN IF s2.last = "Error" THEN Ret(s2, "Error") ELSE Ret(s2, "nil")

\* The scheduled-trigger and autoscaling steps, after the three ensures.
ensureOptional(s, F, smclient, funcObj, or) ==
  LET d  == IF funcObj.type = "Scheduled"
            THEN Fallible(s, F, "discovery") ELSE s
      s1 == IF funcObj.type = "Scheduled" /\ d.last = "ok"
            THEN ApiEnsure(d, F, "cronEnsure", "cron", funcObj.ns,
                           TriggerName(funcObj.name), or)
            ELSE d
  IN IF funcObj.type = "Scheduled" /\ s1.last = "Error" THEN Ret(s1, "Error")
     ELSE IF funcObj.hpaName # <<>> /\ funcObj.scaleTarget # <<>>
     THEN ensureAutoscale(s1, F, smclient, funcObj, or)
     ELSE LET s2 == deleteAutoscale(s1, F, smclient, funcObj.ns, funcObj.name)
          IN IF s2.last = "Error" THEN Ret(s2, "Error") ELSE Ret(s2, "nil")

\* ensureK8sResources going on to the deployment after a failed ensure of
\* the network-exposure object.
ensureK8sResourcesNoAbort(objs, F, config, smclient, funcObj) ==
  LET b == [Begin(objs) EXCEPT !.fn = [funcObj EXCEPT !.labelled = TRUE]] IN
  IF config = "bad" THEN Ret(b, "ConfigParseError")
  ELSE LET m0 == IF config = "ok" THEN Fallible(b, F, "merge") ELSE b
           m  == IF config = "ok" /\ m0.last = "ok"
                 THEN [m0 EXCEPT !.fn.merged = TRUE] ELSE m0
       IN IF m.last = "Error" THEN Ret(m, "Error")
       ELSE LET o  == Fallible(m, F, "ownerRef")
                or == GetOwnerReference(funcObj.name)
       IN IF o.last = "Error" THEN Ret(o, "Error")
       ELSE LET s1 == ApiEnsure(o, F, "cmEnsure", "cm", funcObj.ns,
                                funcObj.name, or)
       IN IF s1.last = "Error" THEN Ret(s1, "Error")
       ELSE LET s2 == ApiEnsure(s1, F, "svcEnsure", "svc", funcObj.ns,
                                funcObj.name, or)
       IN LET s3 == ApiEnsure(s2, F, "depEnsure", "dep", funcObj.ns,
                                funcObj.name, or)
       IN IF s3.last = "Error" THEN Ret(s3, "Error")
       ELSE ensureOptional(s3, F, smclient, funcObj, or)

\* config is the "deployment" entry of the controller's configuration
\* object: "none" (no entry), "ok" (parses) or "bad" (does not parse).
\* The function=<name> label and the merged deployment shape are written
\* into funcObj itself.
ensureK8sResources(objs, F, config, smclient, funcObj) ==
  LET b == [Begin(objs) EXCEPT !.fn = [funcObj EXCEPT !.labelled = TRUE]] IN
  IF config = "bad" THEN Ret(b, "ConfigParseError")
  ELSE LET m0 == IF config = "ok" THEN Fallible(b, F, "merge") ELSE b
           m  == IF config = "ok" /\ m0.last = "ok"
                 THEN [m0 EXCEPT !.fn.merged = TRUE] ELSE m0
       IN IF m.last = "Error" THEN Ret(m, "Error")
       ELSE LET o  == Fallible(m, F, "ownerRef")
                or == GetOwnerReference(funcObj.name)
       IN IF o.last = "Error" THEN Ret(o, "Error")
       ELSE LET s1 == ApiEnsure(o, F, "cmEnsure", "cm", funcObj.ns,
                                funcObj.name, or)
       IN IF s1.last = "Error" THEN Ret(s1, "Error")
       ELSE LET s2 == ApiEnsure(s1, F, "svcEnsure", "svc", funcObj.ns,
                                funcObj.name, or)
       IN IF s2.last = "Error" THEN Ret(s2, "Error")
       ELSE LET s3 == ApiEnsure(s2, F, "depEnsure", "dep", funcObj.ns,
                                funcObj.name, or)
       IN IF s3.last = "Error" THEN Ret(s3, "Error")
       ELSE ensureOptional(s3, F, smclient, funcObj, or)

\* ------------------------------------------------------------ processItem
NoFunc == [name |-> <<>>]

\* informer.GetIndexer().GetByKey: the cache is a function from the keys of
\* Functions to the cached Function, or NoFunc.
Exists(cache, key) == key \in DOMAIN cache /\ cache[key] # NoFunc

\* processItem not looking the key up in the cache: every well-formed key
\* takes the delete path.
processItemNoLookup(key, cache, objs, F, config, smclient) ==
  LET sp == SplitMetaNamespaceKey(key)
  IN IF ~sp.ok
     THEN [res |-> Ret(Begin(objs), "InvalidKey"), path |-> "none"]
     ELSE [res |-> deleteK8sResources(objs, F, smclient, sp.ns, sp.name),
           path |-> "delete"]

\* processItem's result: what the path returned and which path it took.
processItem(key, cache, objs, F, config, smclient) ==
  LET sp == SplitMetaNamespaceKey(key)
  IN IF ~sp.ok
     THEN [res |-> Ret(Begin(objs), "InvalidKey"), path |-> "none"]
     ELSE IF ~Exists(cache, key)
     THEN [res |-> deleteK8sResources(objs, F, smclient, sp.ns, sp.name),
           path |-> "delete"]
     ELSE [res |-> ensureK8sResources(objs, F, config, smclient, cache[key]),
           path |-> "ensure"]

\* The branch on err retrying every failure, with no give-up.
processNextItemAfterNoGiveUp(queue, key, err) ==
  IF err = "nil" THEN QueueForget(queue, key)
  ELSE QueueAddRateLimited(queue, key)

\* The branch on err retrying while NumRequeues is at most maxRetries.
processNextItemAfterOneMore(queue, key, err) ==
  IF err = "nil" THEN QueueForget(queue, key)
  ELSE IF QueueNumRequeues(queue, key) <= maxRetries
  THEN QueueAddRateLimited(queue, key)
  ELSE QueueForget(queue, key)

\* processNextItem after processItem returned err: forget, retry or give up.
processNextItemAfter(queue, key, err) ==
  IF err = "nil" THEN QueueForget(queue, key)
  ELSE IF QueueNumRequeues(queue, key) < maxRetries
  THEN QueueAddRateLimited(queue, key)
  ELSE QueueForget(queue, key)

\* processNextItem without the deferred queue.Done(key).
processNextItemNoDone(queue, key, err) ==
  processNextItemAfter(queue, key, err)

\* processNextItem from the branch on err to its return, where the deferred
\* queue.Done(key) runs.
processNextItem(queue, key, err) ==
  QueueDone(processNextItemAfter(queue, key, err), key)

\* Whether processNextItem gives up on the key.
GivesUp(queue, key, err) ==
  err # "nil" /\ QueueNumRequeues(queue, key) >= maxRetries

\* ------------------------------------------------------------ sweep
\* A List call's items, in the order the API returns them.
RECURSIVE Listed(_)
Listed(S) ==
  IF S = {} THEN <<>>
  ELSE LET o == CHOOSE x \in S : TRUE IN <<o>> \o Listed(S \ {o})

OfKind(objs, kind) == {o \in objs : o.kind = kind}

\* Whether a collector enqueues a key for this object.
Collected(o) ==
  /\ Len(o.refs) # 0
  /\ o.refs[1].kind = funcKind
  /\ o.refs[1].api = funcAPI

\* The loop of collectServices, collectDeployment and collectConfigMap.
RECURSIVE collect(_, _)
collect(q, items) ==
  IF items = <<>> THEN q
  ELSE LET o == Head(items)
       IN collect(IF Collected(o)
                  THEN QueueAdd(q, SprintfKey(o.ns, o.refs[1].name))
                  ELSE q,
                  Tail(items))

CollectedKeys(objs, kind) ==
  {SprintfKey(o.ns, o.refs[1].name) :
     o \in {x \in OfKind(objs, kind) : Collected(x)}}

\* ------------------------------------------------------------ state
VARIABLES
  config,     \* the "deployment" entry of the controller's configuration object
  smclient,   \* whether a metrics-monitor client is configured
  objs,       \* the cluster's objects of the managed kinds
  cache,      \* the informer's store of Functions, by key
  synced,     \* informer.HasSynced()
  events,     \* watch notifications delivered so far
  faults,     \* failed calls so far
  stopCh,     \* whether stopCh is closed
  q,          \* the work queue
  pc,         \* where Run is
  key,        \* the key Get returned, NoKey outside an attempt
  err,        \* what processItem returned
  path,       \* the path processItem took: "delete", "ensure", "none"
  log,        \* the calls processItem made, with their results
  runs,       \* processItem calls since the latest Get
  dropped     \* keys given up on with no delivery pending, and neither
              \* delivered nor added by a handler or the sweep since

vars == <<config, smclient, objs, cache, synced, events, faults, stopCh, q, pc, key,
          err, path, log, runs, dropped>>

\* ------------------------------------------------------------ inputs
Calls == {"cronGet", "cronDelete", "depDelete", "svcDelete", "cmDelete",
          "smDelete", "hpaDelete", "merge", "ownerRef", "cmEnsure",
          "svcEnsure", "depEnsure", "discovery", "cronEnsure", "smCreate",
          "hpaCreate"}

\* The sets of calls that may fail in one attempt, n failures being left.
RECURSIVE FaultSets(_)
FaultSets(n) ==
  IF n = 0 THEN {{}}
  ELSE LET S == FaultSets(n - 1) IN S \cup {F \cup {c} : F \in S, c \in Calls}

\* The calls of an attempt that failed.
Failed(l) == {i \in 1..Len(l) : l[i][2] = "Error"}

\* The declarations the watch may report for a name.
Decls(name) ==
  { Function(name, "HTTP", <<>>, <<>>, <<>>),
    Function(name, "Scheduled", <<>>, <<>>, <<>>),
    Function(name, "Schedule", <<>>, <<>>, <<>>),
    Function(name, "HTTP", name, name, <<"Object">>),
    Function(name, "HTTP", name, name, <<"Resource">>),
    Function(name, "HTTP", name, name, <<>>),
    Function(name, "HTTP", name, <<>>, <<"Resource">>) }

\* The payload of the objects an earlier run left.
OldPayload == [type |-> "HTTP", merged |-> FALSE, metrics |-> <<>>]

\* The objects a controller left for a Function.
Managed(name, kinds) ==
  {Obj(k, NS, IF k = "cron" THEN TriggerName(name) ELSE name,
       GetOwnerReference(name), OldPayload) : k \in kinds}

\* Objects that are not as the controller makes them: one whose owner name
\* holds a "/", one with no owner reference, one owned by another kind, and
\* one whose reference to its Function comes second.
Foreign ==
  { Obj("svc", NS, <<"x">>,
        <<[kind |-> funcKind, api |-> funcAPI, name |-> SlashName]>>,
        OldPayload),
    Obj("cm", NS, <<"y">>, <<>>, OldPayload),
    Obj("dep", NS, <<"z">>,
        <<[kind |-> "ReplicaSet", api |-> "apps/v1", name |-> <<"z">>]>>,
        OldPayload),
    Obj("cm", NS, <<"w">>,
        <<[kind |-> "ReplicaSet", api |-> "apps/v1", name |-> <<"z">>]>>
          \o GetOwnerReference(OrphanName),
        OldPayload) }

\* What a controller may start with: the configuration object's "deployment"
\* entry, whether a metrics-monitor client is configured, and the cluster.
Starts ==
  { [config |-> "none", smclient |-> TRUE, objs |-> {}],
    [config |-> "bad", smclient |-> TRUE,
     objs |-> Managed(LiveName, {"cm", "svc", "dep"})],
    [config |-> "ok", smclient |-> TRUE,
     objs |-> Managed(OrphanName, {"cm", "svc", "dep", "cron", "hpa", "sm"})],
    [config |-> "ok", smclient |-> FALSE,
     objs |-> Foreign \cup Managed(LiveName, {"sm"})] }

Init ==
  /\ \E s \in Starts :
       /\ config = s.config
       /\ smclient = s.smclient
       /\ objs = s.objs
  /\ cache = [k \in FuncKeys |-> NoFunc]
  /\ synced = FALSE
  /\ events = 0
  /\ faults = 0
  /\ stopCh = FALSE
  /\ q = NewRateLimitingQueue
  /\ pc = "waitSync"
  /\ key = NoKey
  /\ err = "nil"
  /\ path = "none"
  /\ log = <<>>
  /\ runs = 0
  /\ dropped = {}

\* ------------------------------------------------------------ event handlers
\* The handlers New registers with the informer: each adds the object's key.
AddFunc(queue, obj) ==
  QueueAdd(queue, MetaNamespaceKeyFunc(obj.ns, obj.name))

\* UpdateFunc pushing the key on the queue's list itself, without the
\* queue's check of its dirty set.
UpdateFuncNoDedup(queue, new) ==
  LET k == MetaNamespaceKeyFunc(new.ns, new.name)
  IN IF queue.shuttingDown THEN queue
     ELSE [queue EXCEPT !.queue = Append(@, k), !.dirty = @ \cup {k}]

UpdateFunc(queue, new) ==
  QueueAdd(queue, MetaNamespaceKeyFunc(new.ns, new.name))

\* cache.DeletionHandlingMetaNamespaceKeyFunc gives the same key, also for an
\* object whose final state the watch missed.
DeleteFunc(queue, obj) ==
  QueueAdd(queue, MetaNamespaceKeyFunc(obj.ns, obj.name))

\* The informer runs until stopCh is closed or the process dies.
InformerRuns == ~stopCh /\ pc # "crashed" /\ events < MaxEvents

\* The informer stores a new Function and calls AddFunc.
InformerAdd ==
  /\ InformerRuns
  /\ \E n \in FuncNames : \E f \in Decls(n) :
       LET k == MetaNamespaceKeyFunc(f.ns, f.name) IN
       /\ ~Exists(cache, k)
       /\ cache' = [cache EXCEPT ![k] = f]
       /\ q' = AddFunc(q, f)
       /\ dropped' = dropped \ {k}
  /\ events' = events + 1
  /\ UNCHANGED <<config, smclient, objs, synced, faults, stopCh, pc, key, err,
                 path, log, runs>>

\* The informer stores a changed Function and calls UpdateFunc.
InformerUpdate ==
  /\ InformerRuns
  /\ \E n \in FuncNames : \E f \in Decls(n) :
       LET k == MetaNamespaceKeyFunc(f.ns, f.name) IN
       /\ Exists(cache, k)
       /\ cache' = [cache EXCEPT ![k] = f]
       /\ q' = UpdateFunc(q, f)
       /\ dropped' = dropped \ {k}
  /\ events' = events + 1
  /\ UNCHANGED <<config, smclient, objs, synced, faults, stopCh, pc, key, err,
                 path, log, runs>>

\* The informer removes a Function from its store and calls DeleteFunc.
InformerDelete ==
  /\ InformerRuns
  /\ \E k \in FuncKeys :
       /\ Exists(cache, k)
       /\ cache' = [cache EXCEPT ![k] = NoFunc]
       /\ q' = DeleteFunc(q, cache[k])
       /\ dropped' = dropped \ {k}
  /\ events' = events + 1
  /\ UNCHANGED <<config, smclient, objs, synced, faults, stopCh, pc, key, err,
                 path, log, runs>>

\* The informer finishes its initial list.
InformerSynced ==
  /\ ~stopCh /\ pc # "crashed" /\ ~synced
  /\ synced' = TRUE
  /\ UNCHANGED <<config, smclient, objs, cache, events, faults, stopCh, q, pc, key,
                 err, path, log, runs, dropped>>

\* The caller of Run closes stopCh.
CloseStopCh ==
  /\ ~stopCh /\ pc # "crashed"
  /\ stopCh' = TRUE
  /\ UNCHANGED <<config, smclient, objs, cache, synced, events, faults, q, pc, key,
                 err, path, log, runs, dropped>>

\* The queue's timer: the backoff of a waiting key expires and it is added.
TimerFires ==
  /\ ~q.shuttingDown /\ pc # "crashed"
  /\ \E k \in q.waiting : q' = QueueTimerFires(q, k)
  /\ UNCHANGED <<config, smclient, objs, cache, synced, events, faults, stopCh, pc,
                 key, err, path, log, runs, dropped>>

\* ------------------------------------------------------------ Run
\* Run going on to the sweep without waiting for the informer's cache.
RunSyncedNoWait ==
  /\ pc = "waitSync"
  /\ pc' = "collectServices"
  /\ UNCHANGED <<config, smclient, objs, cache, synced, events, faults, stopCh, q,
                 key, err, path, log, runs, dropped>>

\* cache.WaitForCacheSync returned true: Run goes on to the sweep.
RunSynced ==
  /\ pc = "waitSync" /\ synced
  /\ pc' = "collectServices"
  /\ UNCHANGED <<config, smclient, objs, cache, synced, events, faults, stopCh, q,
                 key, err, path, log, runs, dropped>>

\* cache.WaitForCacheSync gave up on stopCh: Run returns, and its deferred
\* queue.ShutDown() runs.
RunSyncAborted ==
  /\ pc = "waitSync" /\ stopCh
  /\ pc' = "returned"
  /\ q' = QueueShutDown(q)
  /\ UNCHANGED <<config, smclient, objs, cache, synced, events, faults, stopCh, key,
                 err, path, log, runs, dropped>>

\* One collector of garbageCollect: its List fails (garbageCollect returns
\* the error, which Run ignores, and the later collectors are skipped) or
\* every owned item's key is added.
Collector(at, kind, next) ==
  /\ pc = at
  /\ \E failed \in BOOLEAN :
       IF failed
       THEN /\ pc' = "until"
            /\ UNCHANGED <<q, dropped>>
       ELSE /\ pc' = next
            /\ q' = collect(q, Listed(OfKind(objs, kind)))
            /\ dropped' = dropped \ CollectedKeys(objs, kind)
  /\ UNCHANGED <<config, smclient, objs, cache, synced, events, faults, stopCh,
                 key, err, path, log, runs>>

collectServices == Collector("collectServices", "svc", "collectDeployment")

collectDeployment == Collector("collectDeployment", "dep", "collectConfigMap")

collectConfigMap == Collector("collectConfigMap", "cm", "until")

\* wait.Until(c.runWorker, time.Second, stopCh) at the top of its loop:
\* return if stopCh is closed (Run returns, the deferred ShutDown runs), else
\* call runWorker.
Until ==
  /\ pc = "until"
  /\ IF stopCh
     THEN pc' = "returned" /\ q' = QueueShutDown(q)
     ELSE pc' = "get" /\ q' = q
  /\ UNCHANGED <<config, smclient, objs, cache, synced, events, faults, stopCh, key,
                 err, path, log, runs, dropped>>

\* ------------------------------------------------------------ the worker
\* processNextItem: queue.Get() returns.  With the quit flag runWorker
\* returns and wait.Until either returns (stopCh closed: Run returns and
\* shuts the queue down) or starts runWorker again a second later.
Get ==
  /\ pc = "get"
  /\ QueueGetReady(q)
  /\ LET g == QueueGet(q) IN
       IF g.quit
       THEN /\ pc' = IF stopCh THEN "returned" ELSE "until"
            /\ q' = IF stopCh THEN QueueShutDown(g.q) ELSE g.q
            /\ UNCHANGED <<key, dropped>>
       ELSE /\ pc' = "process"
            /\ q' = g.q
            /\ key' = g.item
            /\ dropped' = dropped \ {g.item}
  /\ err' = "nil"
  /\ path' = "none"
  /\ log' = <<>>
  /\ runs' = 0
  /\ UNCHANGED <<config, smclient, objs, cache, synced, events, faults, stopCh>>

\* processNextItem from processItem(key) to its return: processItem runs with
\* the calls in F failing, the branch on err is taken, and the deferred
\* queue.Done(key) runs.  A panic unwinds through queue.Done(key) and Run's
\* deferred queue.ShutDown(), and ends the process.
Process ==
  /\ pc = "process"
  /\ \E F \in FaultSets(MaxFaults - faults) :
       \E r \in {processItem(key, cache, objs, F, config, smclient)} :
       /\ faults' = faults + Cardinality(Failed(r.res.log))
       /\ objs' = r.res.objs
       /\ cache' = IF r.path = "ensure"
                   THEN [cache EXCEPT ![key] = r.res.fn] ELSE cache
       /\ err' = r.res.err
       /\ log' = r.res.log
       /\ path' = r.path
       /\ IF r.res.panic
          THEN /\ pc' = "crashed"
               /\ q' = QueueShutDown(QueueDone(q, key))
               /\ dropped' = dropped
          ELSE /\ pc' = "get"
               /\ q' = processNextItem(q, key, r.res.err)
               /\ dropped' = IF GivesUp(q, key, r.res.err) /\ key \notin q.dirty
                             THEN dropped \cup {key} ELSE dropped
  /\ runs' = runs + 1
  /\ UNCHANGED <<config, smclient, synced, events, stopCh, key>>

\* ------------------------------------------------------------ specification
RunNext ==
  \/ RunSynced
  \/ RunSyncAborted
  \/ collectServices
  \/ collectDeployment
  \/ collectConfigMap
  \/ Until
  \/ Get
  \/ Process

Next ==
  \/ InformerAdd
  \/ InformerUpdate
  \/ InformerDelete
  \/ InformerSynced
  \/ CloseStopCh
  \/ TimerFires
  \/ RunNext

Spec == Init /\ [][Next]_vars

\* Where Run's goroutine can be.
RunPcs == {"waitSync", "collectServices", "collectDeployment",
           "collectConfigMap", "until", "get", "process", "returned",
           "crashed"}

\* Whether Run's goroutine can take a step: it is blocked while it waits for
\* the cache with stopCh open, and in queue.Get() on an empty queue.
RunEnabled ==
  \/ pc = "waitSync" /\ (synced \/ stopCh)
  \/ pc \in {"collectServices", "collectDeployment", "collectConfigMap",
             "until", "process"}
  \/ pc = "get" /\ QueueGetReady(q)

\* A step of Run's goroutine: the steps of RunNext are those that move pc,
\* and RunNext is enabled exactly when RunEnabled holds.
RunMoves == RunEnabled /\ \E p \in RunPcs \ {pc} : pc' = p

\* Run's goroutine and the queue's timer goroutine are scheduled fairly; the
\* watch and the caller of Run are free to do nothing.
FairSpec == Spec /\ WF_pc(RunMoves) /\ WF_vars(TimerFires)

\* RunMoves stands for RunNext in the fairness condition.
RunMovesIsRunNext ==
  /\ [](RunEnabled <=> ENABLED <<RunNext>>_vars)
  /\ [][(pc' # pc) <=> RunNext]_vars

\* ------------------------------------------------------------ claims
LiveKey == MetaNamespaceKeyFunc(NS, LiveName)
OrphanKey == SprintfKey(NS, OrphanName)
SlashKey == SprintfKey(NS, SlashName)

\* The worker is inside wait.Until's loop.
InWorkerLoop == pc \in {"until", "get", "process"}

\* C1: once stopCh is closed while Run is in its worker loop, Run eventually
\* returns (the queue is shut down, Get returns the quit flag, runWorker
\* exits), also when the worker is blocked in Get on an empty queue.  A
\* panic, which ends the process, is left aside.
C1_StopEndsRun ==
  (stopCh /\ InWorkerLoop) ~> (pc \in {"returned", "crashed"})

\* C2: a key that processNextItem gave up on, with no delivery pending, is
\* not delivered by Get again unless a handler or the sweep adds it: no
\* backoff re-add of an earlier failure delivers it.
C2_DroppedStaysDropped ==
  [][(pc = "get" /\ pc' = "process") => key' \notin dropped]_vars

\* C3: a key that cannot be split is not retried: when processItem returned
\* InvalidKey, processNextItem counted no failure for the key and scheduled
\* no re-add of it.
C3_InvalidKeyNotRetried ==
  (pc = "get" /\ err = "InvalidKey") =>
    (q.failures[key] = 0 /\ key \notin q.waiting)

NoDuplicates(seq) ==
  \A i, j \in 1..Len(seq) : seq[i] = seq[j] => i = j

\* C4: however many notifications for a key arrive before Get takes it, the
\* queue holds the key at most once; and between the Get that returns a key
\* and its Done, processItem runs exactly once for it.
C4_Dedup ==
  /\ NoDuplicates(q.queue)
  /\ key \in q.processing => runs = 0
  /\ (key # NoKey /\ key \notin q.processing) => runs = 1

\* Two notifications for the Function arrived before any Get, and one
\* delivery of its key is pending.
C4_Witness ==
  /\ events = 2
  /\ key = NoKey
  /\ q.queue = <<LiveKey>>

\* C5: at most one key is in flight and the key in flight is not in the
\* queue, so Get cannot deliver it while its attempt runs; a key added
\* while in flight stays marked, and is back in the queue as soon as the
\* attempt has called Done.
C5_OneInFlight ==
  /\ [](/\ Cardinality(q.processing) <= 1
        /\ \A k \in q.processing : ~InQueue(q, k)
        /\ \A k \in q.dirty : InQueue(q, k) \/ k \in q.processing)
  /\ [][(pc = "process" /\ pc' # "process" /\ key \in q.dirty)
          => (key \notin q'.processing /\ InQueue(q', key))]_vars

\* A notification for the key arrived while its attempt was running: the
\* key is marked and not in the queue.
C5_Witness ==
  /\ pc = "process"
  /\ key = LiveKey
  /\ key \in q.dirty
  /\ ~InQueue(q, key)
  /\ q.waiting = {}
  /\ faults = 0

Called(l) == {l[i][1] : i \in 1..Len(l)}
Succeeded(l) == {l[i][1] : i \in {j \in 1..Len(l) : l[j][2] = "ok"}}
DeleteOnlyCalls == {"cronGet", "cronDelete", "depDelete", "svcDelete", "cmDelete"}
EnsureOnlyCalls == {"merge", "ownerRef", "cmEnsure", "svcEnsure", "depEnsure",
                    "discovery", "cronEnsure", "smCreate", "hpaCreate"}
ValidAutoscale(f) == f.hpaName # <<>> /\ f.scaleTarget # <<>>

\* C6: for a key that splits, processItem decides by the cache as it is when
\* the key is processed: absent from the cache, only the delete path runs,
\* for the key's name; present, only the ensure path runs, on the cached
\* declaration (its trigger type and autoscaling specification decide the
\* optional calls).
C6_LevelTriggered ==
  [][(pc = "process" /\ pc' # "process" /\ SplitMetaNamespaceKey(key).ok) =>
       IF Exists(cache, key)
       THEN /\ path' = "ensure"
            /\ Called(log') \cap DeleteOnlyCalls = {}
            /\ "cronEnsure" \in Called(log') => cache[key].type = "Scheduled"
            /\ "hpaCreate" \in Called(log') => ValidAutoscale(cache[key])
            /\ "hpaDelete" \in Called(log') => ~ValidAutoscale(cache[key])
            /\ objs \ objs' \subseteq
                 {o \in objs : o.name \in {cache[key].name,
                                           TriggerName(cache[key].name)}}
       ELSE /\ path' = "delete"
            /\ Called(log') \cap EnsureOnlyCalls = {}
            /\ "cronGet" \in Called(log')
            /\ objs' \subseteq objs
            /\ \A o \in objs \ objs' :
                 o.name \in {SplitMetaNamespaceKey(key).name,
                             TriggerName(SplitMetaNamespaceKey(key).name)}]_vars

\* The Function was added and deleted again before its key was processed:
\* the delete path ran and found nothing to delete.
C6_Witness ==
  /\ pc = "get"
  /\ key = LiveKey
  /\ path = "delete"
  /\ err = "nil"
  /\ events = 2
  /\ \A i \in 1..Len(log) : log[i][2] = "NotFound"

\* The kinds of which the cluster holds the managed object of a Function.
KindsLeft(objects, ns, name) ==
  {k \in Kinds :
     Has(objects, k, ns, IF k = "cron" THEN TriggerName(name) ELSE name)}

Errors(l) == {l[i][1] : i \in Failed(l)}

\* C7: with the orphan's objects in the cluster and no such Function in the
\* cache, once the sweep has enqueued the orphan's key and one cycle for it
\* has gone through the delete path and returned success, the deployment
\* and its siblings (network-exposure object, configuration object,
\* scheduled job, autoscaler) are gone.
C7_OrphanCollected ==
  (pc = "get" /\ key = OrphanKey /\ path = "delete" /\ err = "nil") =>
    KindsLeft(objs, NS, OrphanName) \cap {"dep", "svc", "cm", "cron", "hpa"} = {}

\* C8: in the delete path every error other than not-found, of any call, is
\* returned; and the path returns success only with every managed object of
\* the name gone.
C8_DeleteAbortsOnError ==
  (pc = "get" /\ path = "delete") =>
    /\ Errors(log) # {} => err # "nil"
    /\ err = "nil" => KindsLeft(objs, NS, SplitMetaNamespaceKey(key).name) = {}

\* C9: the delete path fails only on an error other than not-found: with
\* none, whatever objects are absent, it returns success, and the key's
\* failure count is cleared.
C9_DeleteIdempotent ==
  (pc = "get" /\ path = "delete" /\ Errors(log) = {}) =>
    (err = "nil" /\ q.failures[key] = 0)

\* The delete path succeeded for a name that has no scheduled job, no
\* autoscaler and no metrics monitor.
C9_Witness ==
  /\ pc = "get"
  /\ path = "delete"
  /\ err = "nil"
  /\ {<<"cronGet", "NotFound">>, <<"smDelete", "NotFound">>,
      <<"hpaDelete", "NotFound">>} \subseteq {log[i] : i \in 1..Len(log)}

EnsureSucceeds ==
  /\ pc = "process"
  /\ pc' # "process"
  /\ Exists(cache, key)
  /\ err' = "nil"

C12_EnsureFixedPoint ==
  /\ [][EnsureSucceeds =>
          \A k \in {"cm", "svc", "dep"} :
            Obj(k, cache[key].ns, cache[key].name,
                GetOwnerReference(cache[key].name),
                [type    |-> cache[key].type,
                 merged  |-> k = "dep" /\ config = "ok",
                 metrics |-> <<>>]) \in objs']_vars
  /\ [](\A f \in Decls(LiveName) :
          LET r1 == ensureK8sResources(objs, {}, config, smclient, f) IN
          r1.err = "nil" =>
            \A g \in {f, r1.fn} :
              LET r2 == ensureK8sResources(r1.objs, {}, config, smclient, g)
              IN r2.err = "nil" /\ r2.objs = r1.objs /\ r2.fn = r1.fn)

\* Starting from an empty cluster, the worker is about to run the ensure
\* path for a Function with an object-metric autoscaling specification
\* whose objects, autoscaler and metrics monitor included, are all as an
\* ensure path of the same declaration leaves them.
C12_Witness ==
  /\ config = "none"
  /\ pc = "process"
  /\ Exists(cache, key)
  /\ ValidAutoscale(cache[key])
  /\ cache[key].metrics = <<"Object">>
  /\ Has(objs, "hpa", NS, LiveName)
  /\ Has(objs, "sm", NS, LiveName)
  /\ ensureK8sResources(objs, {}, config, smclient, cache[key]).objs = objs

\* C13: the worker never writes to the informer's cache: every step that
\* changes the cache is the delivery of a watch notification, and the cached
\* Function is the same before and after every processItem call.
C13_CacheReadOnly ==
  [][cache' # cache => (pc' = pc /\ events' = events + 1)]_vars

\* The keys of the Functions an object's owner references name.
OwnerKeys(o) ==
  {SprintfKey(o.ns, o.refs[i].name) :
     i \in {j \in DOMAIN o.refs :
              o.refs[j].kind = funcKind /\ o.refs[j].api = funcAPI}}

SweptKinds == {"svc", "dep", "cm"}

\* C14: when the sweep is over and the worker has yet to take its first
\* key, the queue holds the key namespace/ownerName of every
\* network-exposure object, deployment and configuration object with an
\* owner reference to a Function of the expected api-group, and beside
\* them only keys the watch handlers added.
C14_SweepComplete ==
  (pc = "until" /\ key = NoKey) =>
    /\ \A o \in objs : o.kind \in SweptKinds =>
         \A k \in OwnerKeys(o) : InQueue(q, k)
    /\ \A i \in 1..Len(q.queue) :
         \/ Exists(cache, q.queue[i])
         \/ events > 0 /\ q.queue[i] \in FuncKeys
         \/ \E o \in objs : o.kind \in SweptKinds /\ q.queue[i] \in OwnerKeys(o)

\* Where Run is during the sweep.
Sweeping == pc \in {"collectServices", "collectDeployment", "collectConfigMap"}

\* C15: the sweep starts only from the wait for the cache, with the cache
\* synced, and is never entered again, so it runs at most once and Run
\* reaches the worker loop only through it; while Run waits or sweeps the
\* worker has taken no key; with stopCh closed before the cache synced, Run
\* neither sweeps nor starts the worker; and a step of the sweep changes no
\* object and no cached Function, and only appends keys to the queue.
C15_SweepOnceAfterSync ==
  /\ []((pc = "waitSync" \/ Sweeping) =>
          (key = NoKey /\ runs = 0 /\ q.processing = {}))
  /\ []((stopCh /\ ~synced) => (pc \in {"waitSync", "returned"} /\ key = NoKey))
  /\ [][/\ (pc' = "collectServices" /\ pc # pc') => (pc = "waitSync" /\ synced)
        /\ (pc = "waitSync" /\ pc # pc') => pc' \in {"collectServices", "returned"}
        /\ (~Sweeping /\ pc # "waitSync") => ~Sweeping'
        /\ (Sweeping /\ pc # pc') =>
             /\ objs' = objs
             /\ cache' = cache
             /\ \E i \in 0..Len(q'.queue) : SubSeq(q'.queue, 1, i) = q.queue
             /\ q'.failures = q.failures
             /\ q'.waiting = q.waiting
             /\ ~q'.shuttingDown]_vars

\* The sweep is over, it has enqueued the orphan's key, and the worker has
\* yet to take its first key.
C15_Witness ==
  /\ pc = "get"
  /\ key = NoKey
  /\ synced
  /\ InQueue(q, OrphanKey)
  /\ Has(objs, "dep", NS, OrphanName)

\* The calls of the ensure path for a Function, in the order of the code.
EnsureOrder(f) ==
  (IF config = "ok" THEN <<"merge">> ELSE <<>>)
  \o <<"ownerRef", "cmEnsure", "svcEnsure", "depEnsure">>
  \o (IF f.type = "Scheduled" THEN <<"discovery", "cronEnsure">> ELSE <<>>)
  \o (IF ValidAutoscale(f)
      THEN (IF f.metrics # <<>> /\ f.metrics[1] = "Object" /\ smclient
            THEN <<"smCreate">> ELSE <<>>)
           \o (IF f.metrics = <<>> \/ (f.metrics[1] = "Object" /\ ~smclient)
               THEN <<>> ELSE <<"hpaCreate">>)
      ELSE (IF smclient THEN <<"smDelete">> ELSE <<>>) \o <<"hpaDelete">>)

\* The calls that write objects of a kind.
WritersOf(kind) ==
  CASE kind = "cm"   -> {"cmEnsure"}
    [] kind = "svc"  -> {"svcEnsure"}
    [] kind = "dep"  -> {"depEnsure"}
    [] kind = "cron" -> {"cronEnsure"}
    [] kind = "hpa"  -> {"hpaCreate", "hpaDelete"}
    [] kind = "sm"   -> {"smCreate", "smDelete"}

\* C16: an attempt on the ensure path makes its calls in the order of the
\* code (configuration object, network-exposure object, deployment, then
\* the scheduled-job and autoscaling steps) and stops at the first that
\* fails: the failed call is the last one made, no object of a kind whose
\* call was not reached or failed is changed, an override that does not
\* parse stops the attempt before any call, and the error is returned, so
\* that the key is re-enqueued with backoff while retries remain.
C16_EnsureAbortsInOrder ==
  [][(pc = "process" /\ pc' # "process" /\ Exists(cache, key)) =>
       LET f == cache[key]
           order == EnsureOrder(f)
       IN /\ Len(log') <= Len(order)
          /\ \A i \in 1..Len(log') : log'[i][1] = order[i]
          /\ \A i \in Failed(log') : i = Len(log') /\ err' = "Error"
          /\ config = "bad" => (log' = <<>> /\ err' = "ConfigParseError")
          /\ \A k \in Kinds :
               WritersOf(k) \cap Succeeded(log') = {} =>
                 OfKind(objs', k) = OfKind(objs, k)
          /\ (err' = "nil" /\ Errors(log') = {}) => Len(log') = Len(order)
          /\ (err' \in {"Error", "ConfigParseError"}
              /\ QueueNumRequeues(q, key) < maxRetries) =>
               /\ key \in q'.waiting
               /\ QueueNumRequeues(q', key) = QueueNumRequeues(q, key) + 1]_vars

\* The ensure of the network-exposure object failed after that of the
\* configuration object: the attempt ended there and the key waits for its
\* retry.
C16_Witness ==
  /\ pc = "get"
  /\ path = "ensure"
  /\ err = "Error"
  /\ log = <<<<"ownerRef", "ok">>, <<"cmEnsure", "ok">>, <<"svcEnsure", "Error">>>>
  /\ key \in q.waiting
  /\ ~Has(objs, "dep", NS, LiveName)

\* C17: an attempt that returns leaves the key's retry history cleared and
\* schedules no retry if it succeeded; counts one more failure and leaves
\* the key waiting for its backoff if it failed with fewer than maxRetries
\* failures counted; clears the history and schedules no retry if it failed
\* with maxRetries counted.  In each case the key is no longer being
\* processed, it is back in the queue exactly if it was added meanwhile,
\* and no other key's history changes.
C17_ForgetRetryOrGiveUp ==
  [][(pc = "process" /\ pc' = "get") =>
       LET n == QueueNumRequeues(q, key) IN
       /\ err' = "nil" =>
            (QueueNumRequeues(q', key) = 0 /\ q'.waiting = q.waiting)
       /\ (err' # "nil" /\ n < maxRetries) =>
            (QueueNumRequeues(q', key) = n + 1 /\ q'.waiting = q.waiting \cup {key})
       /\ (err' # "nil" /\ n >= maxRetries) =>
            (QueueNumRequeues(q', key) = 0 /\ q'.waiting = q.waiting)
       /\ key \notin q'.processing
       /\ q'.queue = IF key \in q.dirty THEN Append(q.queue, key) ELSE q.queue
       /\ \A k \in Keys \ {key} :
            QueueNumRequeues(q', k) = QueueNumRequeues(q, k)]_vars

\* The worker has given up on a key after maxRetries counted failures: its
\* history is cleared and it is neither queued, in flight nor waiting.
C17_Witness ==
  /\ pc = "get"
  /\ key \in dropped
  /\ err # "nil"
  /\ QueueNumRequeues(q, key) = 0
  /\ key \notin q.waiting
  /\ ~InQueue(q, key)

\* C18: a key whose attempt failed and that was not added meanwhile waits
\* for its backoff outside the queue and is not in flight; a worker at Get
\* with a key pending takes the head of the queue at once, whatever keys
\* wait for their backoff; and with Run's goroutine and the queue's timer
\* scheduled fairly, every key pending while the worker loop runs is
\* eventually processed, unless Run returns first.
C18_FailingKeyDoesNotBlock ==
  /\ [][(pc = "process" /\ pc' = "get" /\ err' # "nil" /\ key \notin q.dirty
         /\ QueueNumRequeues(q, key) < maxRetries) =>
          (key \in q'.waiting /\ ~InQueue(q', key) /\ key \notin q'.processing)]_vars
  /\ []((pc = "get" /\ q.queue # <<>>) =>
          (QueueGetReady(q) /\ ~QueueGet(q).quit
           /\ QueueGet(q).item = Head(q.queue)))
  /\ [][(pc = "get" /\ pc' = "process") => key' = Head(q.queue)]_vars
  /\ \A k \in Keys :
       (InWorkerLoop /\ InQueue(q, k))
         ~> ((pc = "process" /\ key = k) \/ pc = "returned")

\* C19: after a successful ensure path for a live Function, a scheduled job
\* of that Function exists only if its trigger type is "Scheduled", whatever
\* updates of the declaration came before.
C19_ScheduledJobOnlyIfScheduled ==
  [][EnsureSucceeds =>
       (Has(objs', "cron", NS, TriggerName(cache[key].name))
          => cache[key].type = "Scheduled")]_vars

\* C20: the ensure path never panics: the worker does not die in
\* ensureK8sResources, whatever the autoscaling specification of the
\* Function and whether or not a metrics-monitor client is configured.
C20_EnsureNeverPanics ==
  [][(pc = "process" /\ Exists(cache, key)) => pc' # "crashed"]_vars

\* C22: the failure count of every key stays between 0 and maxRetries, and
\* it grows only by one, for the key in flight, in a processNextItem that
\* found it below maxRetries.
C22_RequeuesBounded ==
  /\ [](\A k \in Keys : QueueNumRequeues(q, k) \in 0..maxRetries)
  /\ [][\A k \in Keys :
          QueueNumRequeues(q', k) > QueueNumRequeues(q, k) =>
            /\ pc = "process" /\ pc' = "get" /\ key = k /\ err' # "nil"
            /\ QueueNumRequeues(q, k) < maxRetries
            /\ QueueNumRequeues(q', k) = QueueNumRequeues(q, k) + 1]_vars

\* A key has failed maxRetries times in a row and waits for its last
\* retry, while a notification has put another key in the queue.
C22_Witness ==
  \E k \in Keys :
    /\ QueueNumRequeues(q, k) = maxRetries
    /\ k \in q.waiting
    /\ events > 0
    /\ \E k2 \in Keys \ {k} : InQueue(q, k2)

\* C21: once the live Function is gone from the cache and its key is
\* pending while the worker loop runs, then with Run's goroutine and the
\* queue's timer scheduled fairly and at most MaxFaults failing calls,
\* every managed object of the Function is eventually deleted, unless the
\* Function is added again, Run returns or the process dies first.
C21_DeletedFunctionCleaned ==
  (InWorkerLoop /\ ~Exists(cache, LiveKey) /\ LiveKey \in q.dirty)
    ~> \/ KindsLeft(objs, NS, LiveName) = {}
       \/ Exists(cache, LiveKey)
       \/ pc \in {"returned", "crashed"}

====
